---- MODULE Spec2Model ----
(***************************************************************************)
(* Model of the media renaming pipeline of MediaRenamer_v2.py.             *)
(*                                                                         *)
(* A file name is the sequence of its dot-separated components             *)
(* ("IMG_A.b.jpg" is <<"IMG_A", "b", "jpg">>); a name without extension    *)
(* and a suffix are strings; None and "" are both the empty string for a   *)
(* string field and the empty sequence for a full name, an extension or a  *)
(* path, as the code only tests such fields for truthiness.  A timestamp   *)
(* is a positive integer (seconds); 0 stands for None.                     *)
(***************************************************************************)
EXTENDS Integers, Sequences, FiniteSets, TLC

\* ------------------------------------------------------------------ bounds
MaxFiles == 3       \* files on disk when a run starts
MaxTime == 2        \* timestamps are 1..MaxTime
MaxExtFail == 1     \* renames that fail for an external reason (locked file)
MaxRuns == 2        \* successive executions of the script
MaxPasses == 1      \* extra full passes over one list (SpecApi only)

\* --------------------------------------------------------------- constants
YES == TRUE
NO == FALSE
FILE_EXTENSIONS == <<"jpg", "heic", "mov", "mp4", "mpg", "gif", "m4a">>
EXIF_TAGS == <<"Image DateTime", "EXIF DateTimeOriginal", "EXIF DateTimeDigitized">>
FFMPEG_TAGS == <<"com.apple.quicktime.creationdate", "creation_time">>

\* Python's None for a string, for a sequence and for a datetime.
NoStr == ""
NoSeq == << >>
NoTime == 0

Times == 1..MaxTime

Range(s) == {s[k] : k \in DOMAIN s}

\* ----------------------------------------------------------- FileMetadata
FileMetadata ==
  [no |-> 0, folder |-> NoStr, first_name |-> NoStr, actual_name |-> NoStr,
   actual_full_name |-> NoSeq, actual_full_path |-> NoSeq, date_taken |-> NoStr,
   new_name |-> NoStr, new_full_name |-> NoSeq, new_full_path |-> NoSeq,
   ext |-> NoSeq, is_mutual |-> NO, mutual_order |-> 0, mutual_suffix |-> "",
   has_conflict |-> NO, conflict_suffix |-> ""]

\* The keyword arguments of set_file_metadata at their defaults; an optional
\* argument tested with "is not None" is << >> (None) or <<value>>.
NoArgs ==
  [no |-> 0, folder |-> NoStr, first_name |-> NoStr, actual_name |-> NoStr,
   date_taken |-> NoStr, new_name |-> NoStr, ext |-> NoSeq, is_mutual |-> << >>,
   mutual_order |-> 0, has_conflict |-> << >>, conflict_suffix |-> << >>]

\* f"{file_name}.{ext}" if ext else file_name
concat_full_name(file_name, ext) ==
  IF ext # NoSeq THEN <<file_name>> \o ext ELSE <<file_name>>

\* SLASH.join([folder, full_name]): a path is the folder and the full name.
concat_full_path(folder, full_name) == <<folder, full_name>>

set_actual_name(meta) ==
  IF meta.actual_name = NoStr THEN meta
  ELSE LET full == concat_full_name(meta.actual_name, meta.ext)
       IN [meta EXCEPT !.actual_full_name = full,
                       !.actual_full_path = concat_full_path(meta.folder, full)]

set_new_name_dash(meta) ==
  IF meta.date_taken = NoStr /\ meta.new_name = NoStr THEN meta
  ELSE LET base == IF meta.date_taken # NoStr THEN meta.date_taken ELSE meta.new_name
           dash == IF meta.conflict_suffix # "" THEN "-" ELSE ""
           name == base \o meta.mutual_suffix \o dash \o meta.conflict_suffix
           full == concat_full_name(name, meta.ext)
       IN [meta EXCEPT !.new_name = name,
                       !.new_full_name = full,
                       !.new_full_path = concat_full_path(meta.folder, full)]

set_new_name(meta) ==
  IF meta.date_taken = NoStr /\ meta.new_name = NoStr THEN meta
  ELSE LET base == IF meta.date_taken # NoStr THEN meta.date_taken ELSE meta.new_name
           name == base \o meta.mutual_suffix \o meta.conflict_suffix
           full == concat_full_name(name, meta.ext)
       IN [meta EXCEPT !.new_name = name,
                       !.new_full_name = full,
                       !.new_full_path = concat_full_path(meta.folder, full)]

\* f"{mutual_order:02d}"
Pad2(n) == IF n < 10 THEN "0" \o ToString(n) ELSE ToString(n)

set_file_metadata(file_meta, a) ==
  LET m1 == [file_meta EXCEPT
               !.no = IF a.no # 0 THEN a.no ELSE @,
               !.folder = IF a.folder # NoStr THEN a.folder ELSE @,
               !.first_name = IF a.first_name # NoStr THEN a.first_name ELSE @,
               !.actual_name = IF a.actual_name # NoStr THEN a.actual_name ELSE @,
               !.date_taken = IF a.date_taken # NoStr THEN a.date_taken ELSE @,
               !.new_name = IF a.new_name # NoStr THEN a.new_name ELSE @,
               !.ext = IF a.ext # NoSeq THEN a.ext ELSE @]
      m2 == [m1 EXCEPT !.is_mutual = IF a.is_mutual # << >> THEN a.is_mutual[1] ELSE @]
      m3 == IF a.mutual_order > 0
            THEN [m2 EXCEPT !.mutual_order = a.mutual_order,
                            !.mutual_suffix = "-" \o Pad2(a.mutual_order)]
            ELSE m2
      m4 == [m3 EXCEPT
               !.has_conflict = IF a.has_conflict # << >> THEN a.has_conflict[1] ELSE @,
               !.conflict_suffix = IF a.conflict_suffix # << >> THEN a.conflict_suffix[1] ELSE @]
  IN set_new_name(set_actual_name(m4))

\* ------------------------------------------------------------------ dates
\* strftime(NAME_FORMAT) of the timestamps of the model, None for None.
date_to_str(t) == IF t = NoTime THEN NoStr ELSE "2020010" \o ToString(t) \o "-090000"

\* The text of a timestamp in an EXIF tag (DT_FORMAT) and in a container tag.
ExifStr(t) == "2020:01:0" \o ToString(t) \o " 09:00:00"
IsoStr(t) == "2020-01-0" \o ToString(t) \o "T09:00:00.000000Z"
BadExif == "0000:00:00 00:00:00"
BadIso == "2020-01-01T09:00:00+0300"

get_min_first(value1, value2) == IF value1 # NoTime THEN value1 ELSE value2

get_min(value1, value2) ==
  IF value1 # NoTime /\ value2 # NoTime
  THEN (IF value2 < value1 THEN value2 ELSE value1)
  ELSE (IF value1 # NoTime THEN value1 ELSE value2)

get_utc_time(t) == t

get_os_date_ctime(file) == get_utc_time(file.ctime)

get_os_date(file) == get_min(get_utc_time(file.ctime), get_utc_time(file.mtime))

\* datetime.strptime(str(raw), DT_FORMAT): the timestamp, or 0 for ValueError.
strptime(raw) ==
  IF \E t \in 1..9 : ExifStr(t) = raw THEN CHOOSE t \in 1..9 : ExifStr(t) = raw ELSE 0

RECURSIVE exif_loop(_, _, _)
exif_loop(exif, k, date_taken) ==
  IF k > Len(EXIF_TAGS) THEN date_taken
  ELSE LET raw == exif[EXIF_TAGS[k]]
       IN IF raw = "" THEN exif_loop(exif, k + 1, date_taken)
          ELSE IF strptime(raw) = 0 THEN exif_loop(exif, k + 1, date_taken)
          ELSE exif_loop(exif, k + 1, get_min(date_taken, get_utc_time(strptime(raw))))

get_date_taken(file) == exif_loop(file.exif, 1, NoTime)

\* datetime.fromisoformat(dt.replace("Z", "+00:00")): the timestamp, or 0
\* for ValueError.
fromisoformat(raw) ==
  IF \E t \in 1..9 : IsoStr(t) = raw THEN CHOOSE t \in 1..9 : IsoStr(t) = raw ELSE 0

RECURSIVE ffmpeg_loop(_, _, _)
ffmpeg_loop(tags, k, date_ffmpeg) ==
  IF k > Len(FFMPEG_TAGS) THEN date_ffmpeg
  ELSE LET dt == tags[FFMPEG_TAGS[k]]
       IN IF dt = "" THEN ffmpeg_loop(tags, k + 1, date_ffmpeg)
          ELSE ffmpeg_loop(tags, k + 1, get_min(date_ffmpeg, get_utc_time(fromisoformat(dt))))

\* The probe fails (not a container ffmpeg reads): None.
get_ffmpeg_time(file) ==
  IF ~file.probe_ok THEN NoTime ELSE ffmpeg_loop(file.ffmpeg, 1, NoTime)

\* get_ffmpeg_time raises when a present tag is not an ISO timestamp.
ffmpeg_raises(file) ==
  file.probe_ok /\ \E k \in DOMAIN FFMPEG_TAGS :
    file.ffmpeg[FFMPEG_TAGS[k]] # "" /\ fromisoformat(file.ffmpeg[FFMPEG_TAGS[k]]) = 0

IsImage(ext) == ext \in {<<"jpg">>, <<"heic">>}
IsVideo(ext) == ext \in {<<"mov">>, <<"mp4">>, <<"mpg">>, <<"gif">>}

\* The decoder's timestamp of find_date_taken (its local date_taken).
extract_date(ext, file) ==
  IF IsImage(ext) THEN get_date_taken(file)
  ELSE IF IsVideo(ext) THEN get_ffmpeg_time(file)
  ELSE NoTime

find_date_taken(ext, file) == get_min(extract_date(ext, file), get_os_date(file))

find_date_raises(ext, file) == IsVideo(ext) /\ ffmpeg_raises(file)

\* ------------------------------------------------------------- file system
\* str.lower() on the components the model uses.
Lower(s) == CASE s = "JPG" -> "jpg" [] s = "MOV" -> "mov" [] OTHER -> s

LowerAll(comps) == [k \in DOMAIN comps |-> Lower(comps[k])]

\* The file a path names; Windows compares names without regard to case.
PathMatches(f, path) == f.folder = path[1] /\ LowerAll(f.name) = LowerAll(path[2])

DiskHas(d, path) == path # NoSeq /\ \E f \in d : PathMatches(f, path)

DiskFind(d, path) == CHOOSE f \in d : PathMatches(f, path)

\* os.rename replacing an existing target, as on POSIX.
os_rename_replace(d, src, dst) ==
  IF ~DiskHas(d, src) THEN [ok |-> FALSE, disk |-> d]
  ELSE LET f == DiskFind(d, src)
           others == {g \in d : g.id # f.id /\ ~PathMatches(g, dst)}
       IN [ok |-> TRUE, disk |-> others \cup {[f EXCEPT !.name = dst[2]]}]

\* os.rename(actual_full_path, new_full_path) on Windows: FileNotFoundError
\* when the source is missing, FileExistsError when the target names another
\* file; otherwise the file takes the new name.
os_rename(d, src, dst) ==
  IF ~DiskHas(d, src) THEN [ok |-> FALSE, disk |-> d]
  ELSE LET f == DiskFind(d, src)
       IN IF \E g \in d : g.id # f.id /\ PathMatches(g, dst)
          THEN [ok |-> FALSE, disk |-> d]
          ELSE [ok |-> TRUE, disk |-> (d \ {f}) \cup {[f EXCEPT !.name = dst[2]]}]

\* ------------------------------------------------------------ discovery
F1 == "C:\\Base"
F2 == "C:\\Base\\2018"

\* os.walk(base_folder): top-down.
WalkOrder == <<F1, F2>>

\* dir /B /o:d "root\*.ext": the files of root whose name ends in .ext,
\* oldest modification first; equal times keep the directory's order (id).
Listed(d, root, ext) ==
  {f \in d : f.folder = root /\ Len(f.name) >= 2 /\ Lower(f.name[Len(f.name)]) = ext}

OlderFirst(f, g) == f.mtime < g.mtime \/ (f.mtime = g.mtime /\ f.id <= g.id)

RECURSIVE SortByDate(_)
SortByDate(fs) ==
  IF fs = {} THEN << >>
  ELSE LET f == CHOOSE x \in fs : \A y \in fs : OlderFirst(x, y)
       IN <<f>> \o SortByDate(fs \ {f})

\* file.split(".", 1), extension.lower() and the set_file_metadata call.
discover(f, root, no) ==
  set_file_metadata(FileMetadata,
    [NoArgs EXCEPT !.folder = root, !.first_name = Head(f.name),
                   !.actual_name = Head(f.name), !.ext = LowerAll(Tail(f.name)),
                   !.no = no])

discover_listing(d, root, ext) ==
  LET files == SortByDate(Listed(d, root, ext))
  IN [k \in DOMAIN files |-> discover(files[k], root, k)]

RECURSIVE fetch_loop(_, _, _)
fetch_loop(d, r, e) ==
  IF r > Len(WalkOrder) THEN << >>
  ELSE IF e > Len(FILE_EXTENSIONS) THEN fetch_loop(d, r + 1, 1)
  ELSE discover_listing(d, WalkOrder[r], FILE_EXTENSIONS[e]) \o fetch_loop(d, r, e + 1)

fetch_list_files(d) == fetch_loop(d, 1, 1)

\* ---------------------------------------------------------------- index
\* The DataFrame: one row per record holding the record's fields as they
\* were when it was built; row k refers to list_metadata[k].
create_df_global_media(list) == [k \in DOMAIN list |-> list[k]]

conflict_exists(df) == \E k \in DOMAIN df : df[k].has_conflict = TRUE

RECURSIVE unique(_, _)
unique(seq, seen) ==
  IF seq = << >> THEN << >>
  ELSE IF Head(seq) \in seen THEN unique(Tail(seq), seen)
  ELSE <<Head(seq)>> \o unique(Tail(seq), seen \cup {Head(seq)})

RowsOf(df, date_value, ext) ==
  SelectSeq([k \in DOMAIN df |-> k],
            LAMBDA k : df[k].date_taken = date_value /\ df[k].ext = <<ext>>)

\* The inner loop of search_mutual_names over one group.
mark_group(list, rows) ==
  [k \in DOMAIN list |->
     IF \E j \in DOMAIN rows : rows[j] = k
     THEN set_file_metadata(list[k],
            [NoArgs EXCEPT !.is_mutual = <<YES>>,
                           !.mutual_order = CHOOSE j \in DOMAIN rows : rows[j] = k])
     ELSE list[k]]

RECURSIVE mutual_loop(_, _, _, _, _)
mutual_loop(list, df, dates, d, e) ==
  IF d > Len(dates) THEN list
  ELSE IF e > Len(FILE_EXTENSIONS) THEN mutual_loop(list, df, dates, d + 1, 1)
  ELSE LET rows == RowsOf(df, dates[d], FILE_EXTENSIONS[e])
       IN IF Len(rows) <= 1 THEN mutual_loop(list, df, dates, d, e + 1)
          ELSE mutual_loop(mark_group(list, rows), df, dates, d, e + 1)

\* The list after search_mutual_names in a full pass.
search_mutual_names(list, df) ==
  mutual_loop(list, df, unique([k \in DOMAIN df |-> df[k].date_taken], {}), 1, 1)

\* f"{meta.new_full_name}" in the query of check_conflicts.
QueryName(full_name) == IF full_name = NoSeq THEN <<"None">> ELSE full_name

check_conflicts(list, df) ==
  [k \in DOMAIN list |->
     IF \E r \in DOMAIN df :
          df[r].actual_full_name = QueryName(list[k].new_full_name) /\ df[r].no # list[k].no
     THEN set_file_metadata(list[k],
            [NoArgs EXCEPT !.has_conflict = <<YES>>,
                           !.conflict_suffix = <<ToString(list[k].no)>>])
     ELSE list[k]]

\* reset_conflicts clearing the flag and leaving the suffix.
reset_conflicts_flag_only(list) ==
  [k \in DOMAIN list |->
     IF ~list[k].has_conflict THEN list[k]
     ELSE set_file_metadata(list[k], [NoArgs EXCEPT !.has_conflict = <<NO>>])]

reset_conflicts(list) ==
  [k \in DOMAIN list |->
     IF ~list[k].has_conflict THEN list[k]
     ELSE set_file_metadata(list[k],
            [NoArgs EXCEPT !.has_conflict = <<NO>>, !.conflict_suffix = <<"">>])]

find_file_counts(list, only) ==
  [e \in Range(FILE_EXTENSIONS) |->
     Cardinality({k \in DOMAIN list :
                    list[k].ext = <<e>> /\ (only => list[k].has_conflict)})]

\* ------------------------------------------------------------------ inputs
NoExif == [t \in Range(EXIF_TAGS) |-> ""]
NoFfmpeg == [t \in Range(FFMPEG_TAGS) |-> ""]

File(id, folder, name, ctime, mtime, exif, ffmpeg, probe_ok) ==
  [id |-> id, folder |-> folder, name |-> name, ctime |-> ctime, mtime |-> mtime,
   exif |-> exif, ffmpeg |-> ffmpeg, probe_ok |-> probe_ok]

\* A file whose only timestamps are those of the file system.
Plain(id, folder, name, t) == File(id, folder, name, t, t, NoExif, NoFfmpeg, FALSE)

\* The files a directory tree is populated from: camera names, names that
\* already are date names, names with two dots, a second folder, an
\* upper-case extension, a photo with an EXIF date older than the file and a
\* video whose creation date is not an ISO timestamp.
Catalog ==
  << Plain(1, F1, <<"IMG_A", "jpg">>, 1),
     Plain(2, F1, <<"IMG_A", "jpg">>, 2),
     Plain(3, F1, <<"IMG_B", "jpg">>, 1),
     Plain(4, F1, <<date_to_str(1), "jpg">>, 1),
     Plain(5, F1, <<date_to_str(1), "jpg">>, 2),
     Plain(6, F1, <<"IMG_A", "mov">>, 1),
     Plain(7, F1, <<"IMG_A", "b", "jpg">>, 1),
     Plain(8, F1, <<"IMG_B", "b", "jpg">>, 1),
     Plain(9, F2, <<"IMG_A", "jpg">>, 1),
     File(10, F1, <<"IMG_C", "JPG">>, 2, 2,
          [NoExif EXCEPT !["EXIF DateTimeOriginal"] = ExifStr(1)], NoFfmpeg, FALSE),
     File(11, F1, <<"IMG_B", "mov">>, 2, 2, NoExif,
          [NoFfmpeg EXCEPT !["com.apple.quicktime.creationdate"] = BadIso], TRUE),
     Plain(12, F1, <<"IMG_C", "jpg">>, 1) >>

NoTwoSamePath(d) ==
  \A f, g \in d : (f.folder = g.folder /\ LowerAll(f.name) = LowerAll(g.name)) => f = g

TreeDisks ==
  {d \in SUBSET Range(Catalog) : d # {} /\ Cardinality(d) <= MaxFiles /\ NoTwoSamePath(d)}

\* One file with every combination of time stamps and tag values.
RawExif == {"", BadExif} \cup {ExifStr(t) : t \in Times}
RawIso == {""} \cup {IsoStr(t) : t \in Times}

PhotoDisks ==
  {{File(1, F1, <<"IMG_A", "jpg">>, c, m, x, NoFfmpeg, FALSE)} :
     c \in Times, m \in Times, x \in [Range(EXIF_TAGS) -> RawExif]}

VideoDisks ==
  {{File(1, F1, <<"IMG_A", e>>, c, m, NoExif, x, p)} :
     e \in {"mov", "m4a"}, c \in Times, m \in Times,
     x \in [Range(FFMPEG_TAGS) -> RawIso], p \in BOOLEAN}

InputDisks == TreeDisks \cup PhotoDisks \cup VideoDisks

\* ------------------------------------------------------------------- state
VARIABLES
  disk,              \* the files of the tree
  list_metadata,     \* the list returned by fetch_list_files
  df_global_media,   \* the global DataFrame
  dict_file_counts,  \* the global count per extension
  pc,                \* position in the main flow
  only_conflicts,    \* the argument of the process_files call in progress
  i,                 \* position of run_renamer in list_metadata
  outcome,           \* what rename_file did with each record in this pass
  dates_local,       \* find_date_taken's date_taken and date_os per record
  run,               \* number of the execution of the script
  passes,            \* full passes made over list_metadata again
  ext_fails,         \* renames failed for an external reason so far
  disk0,             \* the tree when the execution started
  collided,          \* records whose first proposed name was another's name
  calls,             \* calls of set_file_metadata a caller made on a record
  prev               \* the tree and the records of the execution before

vars == <<disk, list_metadata, df_global_media, dict_file_counts, pc, only_conflicts,
          i, outcome, dates_local, run, passes, ext_fails, disk0, collided, calls, prev>>

NoCounts == [e \in Range(FILE_EXTENSIONS) |-> 0]

Init ==
  /\ disk \in InputDisks
  /\ disk0 = disk
  /\ list_metadata = << >>
  /\ df_global_media = << >>
  /\ dict_file_counts = NoCounts
  /\ pc = "fetch"
  /\ only_conflicts = NO
  /\ i = 0
  /\ outcome = << >>
  /\ dates_local = << >>
  /\ run = 1
  /\ passes = 0
  /\ ext_fails = 0
  /\ collided = {}
  /\ calls = 0
  /\ prev = << >>

\* list_metadata = fetch_list_files(dir_year)
FetchListFiles ==
  /\ pc = "fetch"
  /\ list_metadata' = fetch_list_files(disk)
  /\ df_global_media' = create_df_global_media(list_metadata')
  /\ pc' = "process"
  /\ UNCHANGED <<disk, dict_file_counts, only_conflicts, i, outcome, dates_local,
                 run, passes, ext_fails, disk0, collided, calls, prev>>

\* ------------------------------------------------------------ process_files
FileOf(meta) == DiskFind(disk, meta.actual_full_path)

DateRaises(meta) ==
  ~DiskHas(disk, meta.actual_full_path) \/ find_date_raises(meta.ext, FileOf(meta))

\* The loop taking, in conflict-only mode, the proposed name for the date.
resolve_date_from_name(meta, only) ==
  IF only THEN set_file_metadata(meta, [NoArgs EXCEPT !.date_taken = meta.new_name])
  ELSE set_file_metadata(meta,
         [NoArgs EXCEPT !.date_taken = date_to_str(find_date_taken(meta.ext, FileOf(meta)))])

\* The loop of lines 519-536 on one record.
resolve_date(meta, only) ==
  IF only THEN set_file_metadata(meta, NoArgs)
  ELSE set_file_metadata(meta,
         [NoArgs EXCEPT !.date_taken = date_to_str(find_date_taken(meta.ext, FileOf(meta)))])

LocalDates(meta) ==
  [date_taken |-> extract_date(meta.ext, FileOf(meta)), date_os |-> get_os_date(FileOf(meta))]

\* The full pass checking for conflicts after the date loop.
full_pass_dates_first(list, df) ==
  LET dated == [k \in DOMAIN list |-> resolve_date(list[k], NO)]
      checked == check_conflicts(dated, df)
  IN search_mutual_names(checked, create_df_global_media(checked))

\* The records after the stages of a full pass, in the order of lines
\* 515-543: check_conflicts, the date loop, the index, search_mutual_names.
full_pass(list, df) ==
  LET checked == check_conflicts(list, df)
      dated == [k \in DOMAIN checked |-> resolve_date(checked[k], NO)]
  IN search_mutual_names(dated, create_df_global_media(dated))

\* Records whose proposed name is the name another record of the folder
\* still has.
Collides(list, k) ==
  \E j \in DOMAIN list :
    /\ j # k
    /\ list[j].folder = list[k].folder
    /\ list[k].new_full_name = list[j].actual_full_name

\* process_files up to the call of run_renamer: the early return, the
\* conflict check, the counts, the dates, the index and the mutual groups.
ProcessFiles ==
  /\ pc \in {"process", "process_conflicts"}
  /\ LET only == (pc = "process_conflicts")
         checked == IF only THEN list_metadata
                    ELSE check_conflicts(list_metadata, df_global_media)
         dated == [k \in DOMAIN checked |-> resolve_date(checked[k], only)]
         grouped == IF only THEN dated
                    ELSE full_pass(list_metadata, df_global_media)
     IN IF only /\ ~conflict_exists(df_global_media)
        THEN /\ pc' = "done"
             /\ UNCHANGED <<disk, list_metadata, df_global_media, dict_file_counts,
                            only_conflicts, i, outcome, dates_local, run, passes,
                            ext_fails, disk0, collided, calls, prev>>
        ELSE /\ only \/ \A k \in DOMAIN checked : ~DateRaises(checked[k])
             /\ list_metadata' = grouped
             /\ df_global_media' = IF only THEN df_global_media
                                   ELSE create_df_global_media(grouped)
             /\ dict_file_counts' = find_file_counts(checked, only)
             /\ dates_local' = IF only THEN dates_local
                               ELSE [k \in DOMAIN checked |-> LocalDates(checked[k])]
             /\ collided' = IF only \/ passes > 0 THEN collided
                            ELSE {k \in DOMAIN grouped : Collides(grouped, k)}
             /\ only_conflicts' = only
             /\ i' = 1
             /\ outcome' = [k \in DOMAIN grouped |-> "pending"]
             /\ pc' = "rename"
             /\ UNCHANGED <<disk, run, passes, ext_fails, disk0, calls, prev>>

\* An exception of find_date_taken leaves process_files and ends the script;
\* the records before the failing one have their dates.
ProcessFilesRaises ==
  /\ pc = "process"
  /\ LET checked == check_conflicts(list_metadata, df_global_media)
         bad == {k \in DOMAIN checked : DateRaises(checked[k])}
     IN /\ bad # {}
        /\ LET first == CHOOSE k \in bad : \A j \in bad : k <= j
           IN /\ list_metadata' = [k \in DOMAIN checked |->
                                     IF k < first THEN resolve_date(checked[k], NO)
                                     ELSE checked[k]]
              /\ dates_local' = [k \in 1..(first - 1) |-> LocalDates(checked[k])]
        /\ dict_file_counts' = find_file_counts(checked, NO)
  /\ pc' = "crashed"
  /\ UNCHANGED <<disk, df_global_media, only_conflicts, i, outcome, run, passes,
                 ext_fails, disk0, collided, calls, prev>>

\* --------------------------------------------------------------- run_renamer
Meta == list_metadata[i]

InLoop == pc = "rename" /\ i \in DOMAIN list_metadata

\* rename_file without its test of the mode.
Skipped_never == FALSE

Skipped == only_conflicts /\ ~Meta.has_conflict
NoPath == Meta.new_full_path = NoSeq
SameName == Meta.new_full_name = Meta.actual_full_name
CallsOs == ~Skipped /\ ~NoPath /\ ~SameName

\* rename_file passing the new name with the wrong keyword.
Renamed_as_date(meta) ==
  set_file_metadata(meta, [NoArgs EXCEPT !.date_taken = meta.new_name])

Renamed(meta) == set_file_metadata(meta, [NoArgs EXCEPT !.actual_name = meta.new_name])

\* Where the script is after rename_file raised and nothing caught it.
after_rename_file_uncaught(result) == IF result = "error" THEN "crashed" ELSE "rename"

\* Where the script is after rename_file returned or raised: the except
\* clause of run_renamer logs the error and the loop goes on.
after_rename_file(result) == "rename"

Step(result) ==
  /\ outcome' = [outcome EXCEPT ![i] = result]
  /\ i' = i + 1
  /\ pc' = after_rename_file(result)
  /\ UNCHANGED <<df_global_media, dict_file_counts, only_conflicts, dates_local,
                 run, passes, disk0, collided, calls, prev>>

\* rename_file without a call of the file system: the record is skipped in
\* conflict-only mode, has no proposed path (an exception), or already bears
\* its proposed name ("File names are identical").
RenameWithoutCall ==
  /\ InLoop
  /\ ~CallsOs
  /\ list_metadata' = IF Skipped \/ NoPath THEN list_metadata
                      ELSE [list_metadata EXCEPT ![i] = Renamed(Meta)]
  /\ Step(IF Skipped THEN "skipped" ELSE IF NoPath THEN "error" ELSE "identical")
  /\ UNCHANGED <<disk, ext_fails>>

\* os_rename is called; when it raises, run_renamer logs the error and goes
\* on with the next record.
RenameCalls ==
  /\ InLoop
  /\ CallsOs
  /\ LET r == os_rename(disk, Meta.actual_full_path, Meta.new_full_path)
     IN /\ disk' = r.disk
        /\ list_metadata' = IF r.ok THEN [list_metadata EXCEPT ![i] = Renamed(Meta)]
                            ELSE list_metadata
        /\ Step(IF r.ok THEN "completed" ELSE "error")
  /\ UNCHANGED ext_fails

\* os.rename raises for a reason outside the program (the file is locked).
RenameFailsExternally ==
  /\ InLoop
  /\ CallsOs
  /\ ext_fails < MaxExtFail
  /\ ext_fails' = ext_fails + 1
  /\ Step("error")
  /\ UNCHANGED <<disk, list_metadata>>

\* The loop of run_renamer is over and process_files returns.
RunRenamerEnds ==
  /\ pc = "rename"
  /\ i > Len(list_metadata)
  /\ pc' = IF only_conflicts THEN "done" ELSE "initialize"
  /\ UNCHANGED <<disk, list_metadata, df_global_media, dict_file_counts,
                 only_conflicts, i, outcome, dates_local, run, passes, ext_fails,
                 disk0, collided, calls, prev>>

InitializeConflicts ==
  /\ pc = "initialize"
  /\ list_metadata' = IF conflict_exists(df_global_media)
                      THEN reset_conflicts(list_metadata) ELSE list_metadata
  /\ pc' = "process_conflicts"
  /\ UNCHANGED <<disk, df_global_media, dict_file_counts, only_conflicts, i, outcome,
                 dates_local, run, passes, ext_fails, disk0, collided, calls, prev>>

\* The script is started again on the tree it left.
RunAgain ==
  /\ pc \in {"done", "crashed"}
  /\ run < MaxRuns
  /\ run' = run + 1
  /\ disk0' = disk
  /\ list_metadata' = << >>
  /\ df_global_media' = << >>
  /\ dict_file_counts' = NoCounts
  /\ pc' = "fetch"
  /\ only_conflicts' = NO
  /\ i' = 0
  /\ outcome' = << >>
  /\ dates_local' = << >>
  /\ collided' = {}
  /\ UNCHANGED <<disk, passes, ext_fails, calls, prev>>

Next ==
  \/ FetchListFiles
  \/ ProcessFiles
  \/ ProcessFilesRaises
  \/ RenameWithoutCall
  \/ RenameCalls
  \/ RenameFailsExternally
  \/ RunRenamerEnds
  \/ InitializeConflicts
  \/ RunAgain

Spec == Init /\ [][Next]_vars

\* process_files(list_metadata) called once more on the list of a finished
\* run, as a caller of the functions may.
ProcessAgain ==
  /\ pc = "done"
  /\ passes < MaxPasses
  /\ passes' = passes + 1
  /\ pc' = "process"
  /\ UNCHANGED <<disk, list_metadata, df_global_media, dict_file_counts,
                 only_conflicts, i, outcome, dates_local, run, ext_fails, disk0,
                 collided, calls, prev>>

NextApi ==
  \/ FetchListFiles
  \/ ProcessFiles
  \/ ProcessFilesRaises
  \/ RenameWithoutCall
  \/ RenameCalls
  \/ RenameFailsExternally
  \/ RunRenamerEnds
  \/ InitializeConflicts
  \/ ProcessAgain

SpecApi == Init /\ [][NextApi]_vars

\* ------------------------------------------- callers of set_file_metadata
MaxCalls == 3

\* The name a caller assigns with new_name when there is no date.
FallbackName == "holiday"

\* The arguments of the calls of set_file_metadata: a resolved date, an
\* assigned name, a mutual order (search_mutual_names), the conflict flag set
\* (check_conflicts) and cleared (reset_conflicts), the name after a rename
\* (rename_file) and date_taken=None (the conflict-only pass).
CallArgs(meta) ==
  {[NoArgs EXCEPT !.date_taken = date_to_str(t)] : t \in Times}
  \cup {[NoArgs EXCEPT !.new_name = FallbackName]}
  \cup {[NoArgs EXCEPT !.is_mutual = <<YES>>, !.mutual_order = n] : n \in 1..2}
  \cup {[NoArgs EXCEPT !.has_conflict = <<YES>>,
                       !.conflict_suffix = <<ToString(meta.no)>>]}
  \cup {[NoArgs EXCEPT !.has_conflict = <<NO>>, !.conflict_suffix = <<"">>]}
  \cup {[NoArgs EXCEPT !.actual_name = meta.new_name]}
  \cup {NoArgs}

\* One file in the tree, so one record in the list.
InitMeta == Init /\ disk \in TreeDisks /\ Cardinality(disk) = 1

\* A caller updates a record of the fetched list through set_file_metadata.
CallSetFileMetadata ==
  /\ pc = "process"
  /\ calls < MaxCalls
  /\ calls' = calls + 1
  /\ \E k \in DOMAIN list_metadata : \E a \in CallArgs(list_metadata[k]) :
       list_metadata' = [list_metadata EXCEPT ![k] = set_file_metadata(list_metadata[k], a)]
  /\ UNCHANGED <<disk, df_global_media, dict_file_counts, pc, only_conflicts, i,
                 outcome, dates_local, run, passes, ext_fails, disk0, collided, prev>>

NextMeta ==
  \/ FetchListFiles
  \/ CallSetFileMetadata

SpecMeta == InitMeta /\ [][NextMeta]_vars

\* -------------------------------------------- two runs over the same files
\* The script is started again on an identical copy of the tree the run
\* before started with; the records that run ended with are kept aside.
RunOnSameFiles ==
  /\ pc \in {"done", "crashed"}
  /\ run < MaxRuns
  /\ run' = run + 1
  /\ prev' = list_metadata
  /\ disk' = disk0
  /\ list_metadata' = << >>
  /\ df_global_media' = << >>
  /\ dict_file_counts' = NoCounts
  /\ pc' = "fetch"
  /\ only_conflicts' = NO
  /\ i' = 0
  /\ outcome' = << >>
  /\ dates_local' = << >>
  /\ collided' = {}
  /\ UNCHANGED <<disk0, passes, ext_fails, calls>>

NextTwice ==
  \/ FetchListFiles
  \/ ProcessFiles
  \/ ProcessFilesRaises
  \/ RenameWithoutCall
  \/ RenameCalls
  \/ RenameFailsExternally
  \/ RunRenamerEnds
  \/ InitializeConflicts
  \/ RunOnSameFiles

SpecTwice == Init /\ [][NextTwice]_vars

\* ------------------------------------------- run_renamer called by itself
\* run_renamer(list_metadata, only_conflicts) called on the list as it is
\* after fetch_list_files, or after process_files left with an exception:
\* the records without a date have no proposed path.
RunRenamerOnList ==
  /\ pc \in {"process", "crashed"}
  /\ only_conflicts' \in {YES, NO}
  /\ i' = 1
  /\ outcome' = [k \in DOMAIN list_metadata |-> "pending"]
  /\ pc' = "rename"
  /\ UNCHANGED <<disk, list_metadata, df_global_media, dict_file_counts, dates_local,
                 run, passes, ext_fails, disk0, collided, calls, prev>>

NextRename ==
  \/ FetchListFiles
  \/ ProcessFilesRaises
  \/ RunRenamerOnList
  \/ RenameWithoutCall
  \/ RenameCalls
  \/ RenameFailsExternally
  \/ RunRenamerEnds

SpecRename == Init /\ [][NextRename]_vars

\* ------------------------------------------------------------- properties
Records == DOMAIN list_metadata

FullPass == pc = "rename" /\ ~only_conflicts /\ passes = 0

Min2(a, b) == IF a <= b THEN a ELSE b

\* C1: no step of a run loses or overwrites a file: every file the tree held
\* when the run started is still in its folder, with its content, under
\* some name, and no file has appeared.
C1_NoFileLost ==
  /\ \A f \in disk0 : \E g \in disk :
       g.id = f.id /\ g.folder = f.folder /\ [g EXCEPT !.name = f.name] = f
  /\ Cardinality(disk) = Cardinality(disk0)

\* A rename was refused because the proposed path is held by a file that has
\* not been renamed yet, and that file is still there.
C1_Witness ==
  \E k \in Records :
    /\ pc = "rename" /\ k < i /\ outcome[k] = "error" /\ ext_fails = 0
    /\ \E j \in Records : j >= i /\ list_metadata[j].actual_full_path = list_metadata[k].new_full_path
    /\ DiskHas(disk, list_metadata[k].new_full_path)

OneDotNames == \A k \in Records : Len(list_metadata[k].ext) = 1

\* C2: in a second run over a tree of names with one dot, nothing from
\* outside interfering, every record takes the "names are identical" branch:
\* os.rename is not called.
C2_SecondRunIdle ==
  (run >= 2 /\ ext_fails = 0 /\ OneDotNames) =>
     \A k \in DOMAIN outcome : outcome[k] \in {"pending", "identical"}

\* C3: in the full pass a record proposing the full name that another record
\* not yet renamed still bears is flagged, with its own no as suffix.
C3_CollisionFlagged ==
  FullPass =>
    \A k \in Records : k >= i =>
      ((\E j \in Records : j >= i /\ j # k
           /\ list_metadata[k].new_full_name = list_metadata[j].actual_full_name)
       => (list_metadata[k].has_conflict
           /\ list_metadata[k].conflict_suffix = ToString(list_metadata[k].no)))

ConflictOnly(m) == m.has_conflict /\ m.mutual_order = 0 /\ m.date_taken # NoStr

\* C4 as stated: a flagged record without mutual order is named
\* D + "-" + n + "." + e.
C4_DashBeforeNo ==
  \A k \in Records : ConflictOnly(list_metadata[k]) =>
    list_metadata[k].new_full_name =
      <<list_metadata[k].date_taken \o "-" \o ToString(list_metadata[k].no)>>
         \o list_metadata[k].ext

\* C4 amended: a flagged record without mutual order is named
\* D + n + "." + e, the sequence number following the date directly.
C4_NoFollowsDate ==
  \A k \in Records : ConflictOnly(list_metadata[k]) =>
    /\ list_metadata[k].conflict_suffix = ToString(list_metadata[k].no)
    /\ list_metadata[k].new_full_name =
         <<list_metadata[k].date_taken \o ToString(list_metadata[k].no)>>
            \o list_metadata[k].ext

\* check_conflicts flagged record 1 of date 20200101-090000: 20200101-0900001.jpg
C4_Witness ==
  \E k \in Records :
    /\ ConflictOnly(list_metadata[k])
    /\ list_metadata[k].no = 1
    /\ list_metadata[k].new_full_name = <<"20200101-0900001", "jpg">>

SameGroup(j, k) ==
  /\ list_metadata[j].date_taken = list_metadata[k].date_taken
  /\ list_metadata[j].ext = list_metadata[k].ext

\* C6: after search_mutual_names in the full pass the k >= 2 records of one
\* (date, extension) pair are numbered 1..k in the order of list_metadata and
\* suffixed -01, -02, ...; a record alone with its pair has order 0 and no
\* suffix.
C6_GroupsNumbered ==
  (FullPass /\ i = 1) =>
    \A k \in Records :
      LET group == {j \in Records : SameGroup(j, k)}
          m == list_metadata[k]
      IN IF Cardinality(group) >= 2
         THEN /\ m.is_mutual
              /\ m.mutual_order = Cardinality({j \in group : j <= k})
              /\ m.new_full_name = <<m.date_taken \o "-" \o Pad2(m.mutual_order)>> \o m.ext
         ELSE /\ m.mutual_order = 0
              /\ m.new_full_name = <<m.date_taken>> \o m.ext

\* C7: a record sharing its (date, extension) pair with no record of its own
\* folder has order 0 and an unsuffixed proposed name.
C7_GroupsWithinFolder ==
  (FullPass /\ i = 1) =>
    \A k \in Records :
      (\A j \in Records :
          (j # k /\ list_metadata[j].folder = list_metadata[k].folder) => ~SameGroup(j, k))
      => /\ list_metadata[k].mutual_order = 0
         /\ list_metadata[k].new_full_name = <<list_metadata[k].date_taken>> \o list_metadata[k].ext

\* C8: a record the full pass has processed has a date, the text of the
\* earliest of the decoder's timestamp (when there is one), the creation time
\* and the modification time of its file.
C8_DateIsEarliest ==
  \A k \in DOMAIN dates_local :
    LET m == list_metadata[k]
        d == dates_local[k]
    IN /\ m.date_taken # NoStr
       /\ d.date_os # NoTime
       /\ m.date_taken = date_to_str(IF d.date_taken = NoTime THEN d.date_os
                                     ELSE Min2(d.date_taken, d.date_os))
       /\ (passes = 0 /\ DiskHas(disk, m.actual_full_path)) =>
            d.date_os = Min2(FileOf(m).ctime, FileOf(m).mtime)

\* The decoder's timestamp is later than the file's, whose modification
\* precedes its creation.
C8_Witness ==
  \E k \in DOMAIN dates_local :
    /\ pc = "rename"
    /\ dates_local[k].date_taken = 2
    /\ FileOf(list_metadata[k]).ctime = 2
    /\ FileOf(list_metadata[k]).mtime = 1
    /\ list_metadata[k].date_taken = date_to_str(1)

ParsedTimes(exif) == {t \in 1..9 : \E tag \in DOMAIN exif : exif[tag] = ExifStr(t)}

\* C9: the timestamp get_date_taken returned for a photo is the earliest of
\* the tags that parse, None when none does.
C9_EarliestTag ==
  \A k \in DOMAIN dates_local :
    LET m == list_metadata[k]
    IN (IsImage(m.ext) /\ passes = 0 /\ DiskHas(disk, m.actual_full_path)) =>
         LET ts == ParsedTimes(FileOf(m).exif)
         IN IF ts = {} THEN dates_local[k].date_taken = NoTime
            ELSE /\ dates_local[k].date_taken \in ts
                 /\ \A t \in ts : dates_local[k].date_taken <= t

\* The first tag holds the later date, the second is unparsable, the third
\* holds the earlier date.
C9_Witness ==
  \E k \in DOMAIN dates_local :
    /\ pc = "rename"
    /\ FileOf(list_metadata[k]).exif =
         [NoExif EXCEPT ![EXIF_TAGS[1]] = ExifStr(2), ![EXIF_TAGS[2]] = BadExif,
                        ![EXIF_TAGS[3]] = ExifStr(1)]
    /\ dates_local[k].date_taken = 1

TargetFree ==
  ~\E g \in disk : ~PathMatches(g, Meta.actual_full_path) /\ PathMatches(g, Meta.new_full_path)

\* C10: a failed rename changes neither the record nor the disk and the loop
\* goes on; a rename that can succeed is made, whatever failed before it; no
\* record is left out when the loop ends.
C10_FailureIsolated ==
  /\ [][(InLoop /\ i' = i + 1 /\ outcome'[i] = "error")
          => (pc' = "rename" /\ disk' = disk /\ list_metadata' = list_metadata)]_vars
  /\ [][(InLoop /\ CallsOs /\ TargetFree /\ ext_fails' = ext_fails)
          => /\ outcome'[i] = "completed"
             /\ DiskHas(disk', Meta.new_full_path)
             /\ ~DiskHas(disk', Meta.actual_full_path)
             /\ list_metadata'[i].actual_full_path = Meta.new_full_path]_vars
  /\ [](pc \in {"initialize", "done"} => \A k \in DOMAIN outcome : outcome[k] # "pending")

\* A rename failed and a later record was renamed in the same loop.
C10_Witness ==
  \E k, j \in DOMAIN outcome : k < j /\ outcome[k] = "error" /\ outcome[j] = "completed"

\* C11: a failure of the date resolution of one record is absorbed: when the
\* run is over, nothing from outside having interfered, every record whose
\* own date resolution does not fail has its date and was handed to
\* rename_file.
C11_DateFailureAbsorbed ==
  (pc \in {"done", "crashed"} /\ ext_fails = 0) =>
    \A k \in Records : ~DateRaises(list_metadata[k]) =>
      /\ list_metadata[k].date_taken # NoStr
      /\ k \in DOMAIN outcome
      /\ outcome[k] # "pending"

\* C12: no two records of a batch have the same no, and the no of a record
\* never changes.
C12_NoUniqueAndFixed ==
  /\ [](\A j, k \in Records : j # k => list_metadata[j].no # list_metadata[k].no)
  /\ [][\A k \in Records : k \in DOMAIN list_metadata' =>
          list_metadata'[k].no = list_metadata[k].no]_vars

\* C13: a record with a resolved date or an assigned fallback name has the
\* proposed full name (date_taken, else the fallback name) + mutual_suffix +
\* conflict_suffix + "." + ext, each suffix once, and the proposed full path
\* folder + separator + proposed full name, whatever calls of
\* set_file_metadata were made on it.
C13_NameIsBasePlusSuffixes ==
  \A k \in Records :
    LET m == list_metadata[k]
        base == IF m.date_taken # NoStr THEN m.date_taken ELSE FallbackName
    IN (m.date_taken # NoStr \/ m.new_name # NoStr) =>
         /\ m.new_full_name = <<base \o m.mutual_suffix \o m.conflict_suffix>> \o m.ext
         /\ m.new_full_path = <<m.folder, m.new_full_name>>

\* C14: when a full run over names with one dot is over and no rename failed
\* for a reason outside the program, every record bears its proposed full
\* name and a file is at its path.
C14_AllTerminal ==
  (pc = "done" /\ ext_fails = 0 /\ OneDotNames) =>
    \A k \in Records :
      /\ list_metadata[k].actual_full_name = list_metadata[k].new_full_name
      /\ DiskHas(disk, list_metadata[k].actual_full_path)

Determined(m) ==
  <<m.date_taken, m.mutual_order, m.has_conflict, m.conflict_suffix, m.new_full_name>>

\* C15: a run over the files of the run before, discovered in the same
\* order, ends with the same date_taken, mutual_order, has_conflict,
\* conflict_suffix and proposed full name in every record, whichever renames
\* failed in either run.
C15_SameFilesSameFields ==
  (run >= 2 /\ pc \in {"done", "crashed"}) =>
    /\ Len(list_metadata) = Len(prev)
    /\ \A k \in Records : Determined(list_metadata[k]) = Determined(prev[k])

\* The second run is over; a rename that failed in the first run succeeded
\* in the second, in a mutual group.
C15_Witness ==
  /\ run = 2 /\ pc = "done" /\ ext_fails = 1
  /\ \E k \in Records :
       /\ outcome[k] = "completed"
       /\ list_metadata[k].mutual_order > 0
       /\ prev[k].actual_full_name # list_metadata[k].actual_full_name

\* C16: when the mutual groups of the full pass are made, before the first
\* rename, any two records of one folder propose different full names,
\* names with more than one dot included.
C16_ProposedNamesDiffer ==
  (FullPass /\ i = 1) =>
    \A j, k \in Records :
      (j # k /\ list_metadata[j].folder = list_metadata[k].folder) =>
        list_metadata[j].new_full_name # list_metadata[k].new_full_name

\* C17: when a step of the flow starts (process_files, run_renamer,
\* initialize_conflicts, the conflict-only process_files), every row of the
\* index equals the fields of its record: the index was rebuilt after the
\* step before.
C17_IndexFresh ==
  (pc \in {"process", "initialize", "process_conflicts"} \/ (pc = "rename" /\ i = 1)) =>
    df_global_media = create_df_global_media(list_metadata)

\* C18 as stated: rename_file on a record without proposed path raises; no
\* file and no record changes, the error is reported and run_renamer goes on
\* with the next record.
C18_NoPathRaises ==
  [][(InLoop /\ NoPath) =>
       /\ disk' = disk
       /\ list_metadata' = list_metadata
       /\ outcome'[i] = "error"
       /\ pc' = "rename" /\ i' = i + 1]_vars

\* C18: rename_file on a record without proposed path changes no file and no
\* record and run_renamer goes on with the next record; an error is raised
\* and reported unless the pass is conflict-only and the record is not
\* flagged, and then the record is skipped.
C18_NoPathRaisesUnlessSkipped ==
  [][(InLoop /\ NoPath) =>
       /\ disk' = disk
       /\ list_metadata' = list_metadata
       /\ outcome'[i] = IF only_conflicts /\ ~Meta.has_conflict THEN "skipped" ELSE "error"
       /\ pc' = "rename" /\ i' = i + 1]_vars

\* In a full pass a record without proposed path got its error and the
\* record after it was handled.
C18_Witness ==
  \E k \in DOMAIN outcome :
    /\ ~only_conflicts
    /\ list_metadata[k].new_full_path = NoSeq
    /\ outcome[k] = "error"
    /\ k + 1 \in DOMAIN outcome /\ outcome[k + 1] # "pending"
    /\ C1_NoFileLost

InConflictOnly == pc = "process_conflicts" \/ (pc = "rename" /\ only_conflicts)

DateAndMutual(m) == <<m.date_taken, m.is_mutual, m.mutual_order, m.mutual_suffix>>

\* C19: no step of the conflict-only pass (process_files with
\* only_conflicts, its run_renamer and rename_file) changes the date_taken,
\* is_mutual, mutual_order or mutual_suffix of a record.
C19_ConflictOnlyKeepsDateAndMutual ==
  [][InConflictOnly =>
       /\ DOMAIN list_metadata' = Records
       /\ \A k \in Records :
            DateAndMutual(list_metadata'[k]) = DateAndMutual(list_metadata[k])]_vars

\* The conflict-only pass went through its date loop and through a record
\* of a mutual group in its rename loop.
C19_Witness ==
  /\ pc = "rename" /\ only_conflicts
  /\ \E k \in Records :
       k < i /\ list_metadata[k].mutual_order > 0 /\ list_metadata[k].date_taken # NoStr

NoneFlagged == \A k \in Records : ~list_metadata[k].has_conflict

\* C20: while no record is flagged, no step of the conflict-only pass renames
\* a file or changes a field of a record or a row of the index, at each of
\* its repetitions.
C20_IdleWithoutFlags ==
  [][(InConflictOnly /\ NoneFlagged) =>
       /\ disk' = disk
       /\ list_metadata' = list_metadata
       /\ df_global_media' = df_global_media]_vars

\* A conflict-only pass that did not return at once, the index still showing
\* the flags initialize_conflicts had cleared on the records, went through
\* all the records and is over.
C20_Witness ==
  /\ pc = "done" /\ only_conflicts /\ NoneFlagged
  /\ conflict_exists(df_global_media)
  /\ Records # {}
  /\ \A k \in Records : outcome[k] = "skipped"

\* C21: in every state, for every record, mutual_suffix is non-empty exactly
\* when mutual_order > 0 and conflict_suffix is non-empty exactly when
\* has_conflict is true.
C21_SuffixesMatchFlags ==
  \A k \in Records :
    /\ (list_metadata[k].mutual_suffix # "") <=> (list_metadata[k].mutual_order > 0)
    /\ (list_metadata[k].conflict_suffix # "") <=> list_metadata[k].has_conflict

\* initialize_conflicts has cleared the flag of a record that check_conflicts
\* had flagged, and a record of the list is in a mutual group.
C21_Witness ==
  /\ pc = "process_conflicts"
  /\ conflict_exists(df_global_media)
  /\ \E k \in Records :
       /\ df_global_media[k].has_conflict /\ df_global_media[k].conflict_suffix # ""
       /\ ~list_metadata[k].has_conflict /\ list_metadata[k].conflict_suffix = ""
  /\ \E j \in Records : list_metadata[j].mutual_order > 0

FileAt(k) == DiskFind(disk, list_metadata[k].actual_full_path)

\* C22: in every state the actual_full_path of each record names a file of
\* the tree and no two records name the same file; a rename that succeeds
\* moves the file and gives the record the new name in the same step, a
\* rename that fails changes neither the tree nor the record.
C22_RecordsNameTheirFiles ==
  /\ [](\A k \in Records :
          /\ DiskHas(disk, list_metadata[k].actual_full_path)
          /\ \A j \in Records : j # k => FileAt(j).id # FileAt(k).id)
  /\ [][(InLoop /\ outcome'[i] = "completed") =>
          /\ list_metadata'[i].actual_full_path = Meta.new_full_path
          /\ DiskHas(disk', Meta.new_full_path)
          /\ ~DiskHas(disk', Meta.actual_full_path)
          /\ DiskFind(disk', Meta.new_full_path).id = FileAt(i).id]_vars
  /\ [][(InLoop /\ outcome'[i] = "error") =>
          (disk' = disk /\ list_metadata' = list_metadata)]_vars

\* In one loop a rename failed and a later one moved a file; its record
\* bears the new name.
C22_Witness ==
  /\ pc = "rename"
  /\ \E k, j \in Records :
       /\ k < j /\ j < i
       /\ outcome[k] = "error" /\ outcome[j] = "completed"
       /\ list_metadata[j].actual_full_name = list_metadata[j].new_full_name
       /\ list_metadata[j].actual_full_name # <<list_metadata[j].first_name>> \o list_metadata[j].ext
       /\ list_metadata[k].actual_full_name # list_metadata[k].new_full_name

====
